---- MODULE Spec2Model ----
(***************************************************************************)
(* A model of weather_currency_bot: the record store of database.py        *)
(* (init_db, save_weather_request, save_currency_request, get_user_stats)  *)
(* and the fetchers and handlers of bot.py (get_currency_rate,             *)
(* get_weather, handle_course_callback, send_weather, send_stats).         *)
(*                                                                         *)
(* Conventions.                                                            *)
(*  - A Python value that may be None is a set with at most one element:   *)
(*    None is {} and a present value v is {v}.                             *)
(*  - A Python dict is a function on its keys; {} is the empty function.   *)
(*  - Temperatures are whole degrees; an average rounded to one decimal    *)
(*    place is an integer number of tenths of a degree.                    *)
(*  - The columns username, description and request_time and the reply     *)
(*    texts are written by the code but read by no operation modelled      *)
(*    here; they are left out of the rows.                                 *)
(***************************************************************************)
EXTENDS Integers, Sequences, FiniteSets, TLC

VARIABLES
    db,         \* weather_bot.db: each existing table's rows, in id order
    reachable,  \* whether sqlite3.connect succeeds right now
    last,       \* the last call made and what it returned
    response,   \* the provider's answer to the HTTP GET of a fetch
    threads,    \* what the handler threads are doing
    lock,       \* the thread whose connection holds the write lock, or 0
    returned    \* per table and user: save calls that returned True

vars == <<db, reachable, last, response, threads, lock, returned>>

----------------------------------------------------------------------------
(* Bounds and input sets *)

MaxRecords == 3

Users == {1, 2}
Cities == {"", "Moscow"}
CurrencyCodes == {"", "USD", "EUR"}

None == {}
Some(v) == {v}
ValueOf(o) == CHOOSE v \in o : TRUE

Temperatures == {None, Some(0), Some(1)}
Rates == {None, Some(90)}

EmptyDict == [k \in {} |-> None]
TableNames == {"weather_requests", "currency_requests"}
NoCall == [op |-> "none", args |-> << >>, ret |-> FALSE]

----------------------------------------------------------------------------
(* database.py *)

\* get_connection: a connection, or None when sqlite3.connect raises
get_connection == IF reachable THEN Some("conn") ELSE None

\* a mutant of CreateTablesIfNotExist: DROP TABLE, then CREATE TABLE
DropAndCreateTables(d) == [t \in TableNames |-> << >>]

\* CREATE TABLE IF NOT EXISTS, for both tables: a table that exists is
\* left as it is, a missing one is created empty
CreateTablesIfNotExist(d) ==
    [t \in DOMAIN d \cup TableNames |-> IF t \in DOMAIN d THEN d[t] ELSE << >>]

\* SELECT ... FROM <table>: the rows (an sqlite3.Error when there is no
\* such table; the callers check that first)
Rows(d, table) == IF table \in DOMAIN d THEN d[table] ELSE << >>

\* INSERT INTO <table> ... ; commit
InsertRow(d, table, row) == [d EXCEPT ![table] = Append(@, row)]

\* a mutant of WeatherInvalid: "and" for "or"
WeatherInvalidBoth(city, temperature) == city = "" /\ temperature = None

\* if not city or temperature is None
WeatherInvalid(city, temperature) == city = "" \/ temperature = None

\* if not currency_code or rate is None
CurrencyInvalid(currency_code, rate) == currency_code = "" \/ rate = None

\* what save_weather_request returns and the database it leaves
SaveWeatherOutcome(user_id, city, temperature) ==
    IF WeatherInvalid(city, temperature)
    THEN [ret |-> FALSE, db |-> db]
    ELSE IF get_connection = None
    THEN [ret |-> FALSE, db |-> db]
    ELSE IF "weather_requests" \notin DOMAIN db  \* sqlite3.Error: no such table
    THEN [ret |-> FALSE, db |-> db]
    ELSE [ret |-> TRUE,
          db |-> InsertRow(db, "weather_requests",
                     [user_id |-> user_id, city |-> city,
                      temperature |-> temperature])]

\* what save_currency_request returns and the database it leaves
SaveCurrencyOutcome(user_id, currency_code, rate) ==
    IF CurrencyInvalid(currency_code, rate)
    THEN [ret |-> FALSE, db |-> db]
    ELSE IF get_connection = None
    THEN [ret |-> FALSE, db |-> db]
    ELSE IF "currency_requests" \notin DOMAIN db \* sqlite3.Error: no such table
    THEN [ret |-> FALSE, db |-> db]
    ELSE [ret |-> TRUE,
          db |-> InsertRow(db, "currency_requests",
                     [user_id |-> user_id, currency_code |-> currency_code,
                      rate |-> rate])]

\* a mutant of RowsOf: the WHERE clause is missing
RowsOfAnyUser(rows, user_id) == rows

\* ... WHERE user_id = ?
RowsOf(rows, user_id) == SelectSeq(rows, LAMBDA r : r.user_id = user_id)

RECURSIVE SumTemperature(_)
\* the sum AVG(temperature) takes: NULL temperatures are skipped
SumTemperature(rows) ==
    IF rows = << >> THEN 0
    ELSE (IF Head(rows).temperature = None THEN 0
          ELSE ValueOf(Head(rows).temperature)) + SumTemperature(Tail(rows))

\* the number of rows AVG(temperature) averages over
CountTemperature(rows) ==
    Len(SelectSeq(rows, LAMBDA r : r.temperature # None))

\* AVG(temperature): NULL over no values, else the quotient sum/count,
\* kept as the pair <<sum, count>>
AvgTemperature(rows) ==
    IF CountTemperature(rows) = 0 THEN None
    ELSE Some(<<SumTemperature(rows), CountTemperature(rows)>>)

\* round(num/den, 1) in tenths: Python rounds to nearest, ties to even
Round1(num, den) ==
    LET q == (10 * num) \div den
        r == (10 * num) - q * den
    IN  IF 2 * r < den THEN q
        ELSE IF 2 * r > den THEN q + 1
        ELSE IF q % 2 = 0 THEN q ELSE q + 1

\* the truth value Python gives weather_stats[1]: None and 0.0 are false
AvgIsTruthy(avg) == avg # None /\ ValueOf(avg)[1] # 0

\* round(weather_stats[1], 1) if weather_stats and weather_stats[1] else None
AvgField(avg) ==
    IF AvgIsTruthy(avg)
    THEN Some(Round1(ValueOf(avg)[1], ValueOf(avg)[2]))
    ELSE None

RECURSIVE Distinct(_)
\* GROUP_CONCAT(DISTINCT currency_code) then split(','): the user's codes,
\* each once, in the order of their first row; [] when there is no row.
\* (codes are non-empty and hold no comma: they come from callback data)
Distinct(codes) ==
    IF codes = << >> THEN << >>
    ELSE LET rest == Distinct(SubSeq(codes, 1, Len(codes) - 1))
             c == codes[Len(codes)]
         IN  IF \E i \in 1..Len(rest) : rest[i] = c THEN rest
             ELSE Append(rest, c)

CurrenciesUsed(rows) == Distinct([i \in 1..Len(rows) |-> rows[i].currency_code])

\* the dict get_user_stats builds from the two SELECTs
StatsDict(user_id) ==
    LET w == RowsOf(Rows(db, "weather_requests"), user_id)
        c == RowsOf(Rows(db, "currency_requests"), user_id)
    IN  [weather_requests |-> Len(w),
         avg_temperature |-> AvgField(AvgTemperature(w)),
         currency_requests |-> Len(c),
         currencies_used |-> CurrenciesUsed(c)]

\* a mutant of get_user_stats: the dict of zeroes when the store fails
get_user_stats_zeroed(user_id) ==
    IF get_connection = None \/ ~(TableNames \subseteq DOMAIN db)
    THEN [weather_requests |-> 0, avg_temperature |-> None,
          currency_requests |-> 0, currencies_used |-> << >>]
    ELSE StatsDict(user_id)

\* what get_user_stats returns
get_user_stats(user_id) ==
    IF get_connection = None THEN EmptyDict
    ELSE IF ~(TableNames \subseteq DOMAIN db) THEN EmptyDict   \* sqlite3.Error
    ELSE StatsDict(user_id)

\* send_stats: "if not stats" answers that the statistics are unavailable,
\* any other dict is rendered
send_stats_reply(stats) ==
    IF stats = EmptyDict THEN "unavailable" ELSE "statistics"

\* room for one more row within the model's bound
HasRoom == Len(Rows(db, "weather_requests"))
             + Len(Rows(db, "currency_requests")) < MaxRecords

idleRest == <<response, threads, lock, returned>>

init_db ==
    /\ IF get_connection = None
       THEN /\ last' = [op |-> "init_db", args |-> << >>, ret |-> FALSE]
            /\ UNCHANGED db
       ELSE /\ db' = CreateTablesIfNotExist(db)
            /\ last' = [op |-> "init_db", args |-> << >>, ret |-> TRUE]
    /\ UNCHANGED <<reachable, idleRest>>

save_weather_request(user_id, city, temperature) ==
    LET out == SaveWeatherOutcome(user_id, city, temperature) IN
    /\ out.ret => HasRoom
    /\ db' = out.db
    /\ last' = [op |-> "save_weather_request",
                args |-> <<user_id, city, temperature>>, ret |-> out.ret]
    /\ UNCHANGED <<reachable, idleRest>>

save_currency_request(user_id, currency_code, rate) ==
    LET out == SaveCurrencyOutcome(user_id, currency_code, rate) IN
    /\ out.ret => HasRoom
    /\ db' = out.db
    /\ last' = [op |-> "save_currency_request",
                args |-> <<user_id, currency_code, rate>>, ret |-> out.ret]
    /\ UNCHANGED <<reachable, idleRest>>

CallGetUserStats(user_id) ==
    /\ last' = [op |-> "get_user_stats", args |-> <<user_id>>,
                ret |-> get_user_stats(user_id)]
    /\ UNCHANGED <<db, reachable, idleRest>>

\* the environment: the database file becomes unreachable, or reachable again
StoreFlips ==
    /\ reachable' = ~reachable
    /\ UNCHANGED <<db, last, idleRest>>

SaveWeather == \E u \in Users, c \in Cities, t \in Temperatures :
                   save_weather_request(u, c, t)
SaveCurrency == \E u \in Users, c \in CurrencyCodes, r \in Rates :
                    save_currency_request(u, c, r)
GetUserStats == \E u \in Users : CallGetUserStats(u)

\* a fresh database file: no table yet, nothing called
StoreInit ==
    /\ db = EmptyDict
    /\ reachable = TRUE
    /\ last = NoCall
    /\ response = EmptyDict
    /\ threads = << >>
    /\ lock = 0
    /\ returned = << >>

StoreNext == init_db \/ SaveWeather \/ SaveCurrency \/ GetUserStats \/ StoreFlips

SpecStore == StoreInit /\ [][StoreNext]_vars

----------------------------------------------------------------------------
(* bot.py: the fetchers *)

\* what requests.get gives: an exception, or a response with a status code
\* and a body that is a JSON document or not parseable
NetOutcomes == {"ok", "Timeout", "ConnectionError"}
StatusCodes == {200, 404, 500}
NotJson == [unparseable |-> TRUE]

\* JSON numbers that may be null
JsonNumbers(n) == {None, Some(n)}

\* a date string of the exchange-rate service, one character per element
DateStrings ==
    { <<"2","0","2","4","-","0","5","-","1","7","T","1","1",":","3","0",
        ":","0","0","+","0","3",":","0","0">>,
      <<"2","0","2","4">> }

\* an entry of the currency table: any of the keys Name, Value, Previous
ValuteEntries ==
    { [k \in K |-> IF k = "Name" THEN "Dollar"
                   ELSE IF k = "Value" THEN v ELSE p] :
        K \in SUBSET {"Name", "Value", "Previous"},
        v \in JsonNumbers(90), p \in JsonNumbers(89) }

\* the currency table: empty, or with an entry for USD alone
ValuteTables == {EmptyDict} \cup { [c \in {"USD"} |-> e] : e \in ValuteEntries }

\* the documents of the exchange-rate service: any of the keys Valute, Date
CbrDocuments ==
    { [k \in K |-> IF k = "Valute" THEN v ELSE d] :
        K \in SUBSET {"Valute", "Date"}, v \in ValuteTables, d \in DateStrings }

\* the temperature block: temp and feels_like absent, null or a number;
\* humidity and pressure absent or a number
MainBlocks ==
    { [k \in K |-> IF k = "temp" THEN t
                   ELSE IF k = "feels_like" THEN f
                   ELSE IF k = "humidity" THEN Some(40) ELSE Some(1013)] :
        K \in SUBSET {"temp", "feels_like", "humidity", "pressure"},
        t \in JsonNumbers(1), f \in JsonNumbers(0) }

\* the conditions block: a list, empty or of one condition
WeatherLists == { << >>, <<EmptyDict>>, <<[description |-> "clear"]>> }

WindBlocks == { EmptyDict, [speed |-> Some(3)] }

\* the documents of the weather service: any of the keys name, main,
\* weather, wind
OwmDocuments ==
    { [k \in K |-> IF k = "name" THEN "Moscow"
                   ELSE IF k = "main" THEN m
                   ELSE IF k = "weather" THEN w ELSE wind] :
        K \in SUBSET {"name", "main", "weather", "wind"},
        m \in MainBlocks, w \in WeatherLists, wind \in WindBlocks }

Responses(provider, documents) ==
    { [provider |-> provider, net |-> n, status_code |-> 0, body |-> NotJson] :
        n \in {"Timeout", "ConnectionError"} }
    \cup { [provider |-> provider, net |-> "ok", status_code |-> c,
            body |-> NotJson] : c \in StatusCodes }
    \cup { [provider |-> provider, net |-> "ok", status_code |-> 200,
            body |-> b] : b \in documents }

CbrResponses == Responses("cbr", CbrDocuments)
OwmResponses == Responses("openweathermap", OwmDocuments)

\* d.get(key): None when the key is absent
Get(d, key) == IF key \in DOMAIN d THEN d[key] ELSE None

\* d.get(key, default)
GetOr(d, key, default) == IF key \in DOMAIN d THEN d[key] ELSE default

\* s[:n]
Prefix(s, n) == SubSeq(s, 1, IF Len(s) < n THEN Len(s) ELSE n)

\* get_currency_rate: the dict it returns, or None
get_currency_rate(currency_code, resp) ==
    IF resp.net # "ok" THEN None                   \* Timeout, ConnectionError
    ELSE IF resp.status_code # 200 THEN None
    ELSE IF resp.body = NotJson THEN None          \* JSONDecodeError
    ELSE LET data == resp.body IN
         IF "Valute" \notin DOMAIN data
              \/ currency_code \notin DOMAIN data["Valute"]
         THEN None
         ELSE LET currency_data == data["Valute"][currency_code] IN
              IF {"Name", "Value", "Previous"} \subseteq DOMAIN currency_data
                   /\ "Date" \in DOMAIN data
              THEN Some([name |-> currency_data["Name"],
                         value |-> currency_data["Value"],
                         previous |-> currency_data["Previous"],
                         date |-> Prefix(data["Date"], 10)])
              ELSE None                            \* KeyError

\* a mutant of NotFoundResult: a result of its own for "not found"
NotFoundResultOfItsOwn == Some("CityNotFound")

\* what get_weather returns for status 404
NotFoundResult == None

\* what get_weather returns for another status that is not 200
ProviderErrorResult == None

\* get_weather: the dict it returns, or None, and the level of the line it
\* logs
get_weather_outcome(city, resp) ==
    IF resp.net # "ok" THEN [ret |-> None, log |-> "error"]
    ELSE IF resp.status_code = 404
    THEN [ret |-> NotFoundResult, log |-> "warning"]
    ELSE IF resp.status_code # 200
    THEN [ret |-> ProviderErrorResult, log |-> "error"]
    ELSE IF resp.body = NotJson
    THEN [ret |-> None, log |-> "exception"]
    ELSE LET data == resp.body IN
         IF "main" \notin DOMAIN data \/ "weather" \notin DOMAIN data
         THEN [ret |-> None, log |-> "error"]
         ELSE IF data["weather"] = << >>           \* IndexError
         THEN [ret |-> None, log |-> "exception"]
         ELSE [ret |-> Some(
                 [city |-> GetOr(data, "name", city),
                  temp |-> Get(data["main"], "temp"),
                  feels_like |-> Get(data["main"], "feels_like"),
                  description |->
                      GetOr(data["weather"][1], "description", "unknown"),
                  humidity |-> GetOr(data["main"], "humidity", Some(0)),
                  wind |-> GetOr(GetOr(data, "wind", EmptyDict), "speed", Some(0)),
                  pressure |-> GetOr(data["main"], "pressure", Some(0))]),
               log |-> "none"]

get_weather(city, resp) == get_weather_outcome(city, resp).ret

CallGetCurrencyRate(currency_code) ==
    /\ response.provider = "cbr"
    /\ last' = [op |-> "get_currency_rate", args |-> <<currency_code>>,
                ret |-> get_currency_rate(currency_code, response)]
    /\ UNCHANGED <<db, reachable, response, threads, lock, returned>>

CallGetWeather(city) ==
    /\ response.provider = "openweathermap"
    /\ last' = [op |-> "get_weather", args |-> <<city>>,
                ret |-> get_weather(city, response),
                log |-> get_weather_outcome(city, response).log]
    /\ UNCHANGED <<db, reachable, response, threads, lock, returned>>

FetchCurrency == \E c \in CurrencyCodes \ {""} : CallGetCurrencyRate(c)
FetchWeather == \E c \in {"Moscow", "moscow"} : CallGetWeather(c)

\* any answer of either provider, nothing fetched yet
FetchInit ==
    /\ db = EmptyDict
    /\ reachable = TRUE
    /\ last = NoCall
    /\ response \in CbrResponses \cup OwmResponses
    /\ threads = << >>
    /\ lock = 0
    /\ returned = << >>

FetchNext == FetchCurrency \/ FetchWeather

SpecFetch == FetchInit /\ [][FetchNext]_vars

----------------------------------------------------------------------------
(* database.py called from several handler threads at once.  Each call runs *)
(* its own statements in order; sqlite3 lets one connection at a time hold  *)
(* the database's write lock, from its INSERT to its commit or close.       *)

NumThreads == 2
Threads == 1..NumThreads

IdleThread == [pc |-> "idle", table |-> "", row |-> EmptyDict,
               conn |-> FALSE, snapshot |-> << >>, ret |-> FALSE]

\* the rows the handlers may ask to save: every user, the required text
\* field empty or not
WeatherRowsToSave ==
    { [user_id |-> u, city |-> c, temperature |-> Some(1)] :
        u \in Users, c \in Cities }
CurrencyRowsToSave ==
    { [user_id |-> u, currency_code |-> c, rate |-> Some(90)] :
        u \in Users, c \in {"", "USD"} }

\* the validation at the head of the save function for the table
RowInvalid(table, row) ==
    IF table = "weather_requests"
    THEN WeatherInvalid(row.city, row.temperature)
    ELSE CurrencyInvalid(row.currency_code, row.rate)

\* a mutant of WriteLockFree: sqlite3 lets every connection write at once
WriteLockIgnored(holder) == TRUE

\* cursor.execute(INSERT ...) gets the write lock when no other connection
\* holds it
WriteLockFree(holder) == holder = 0

\* finally: if conn: conn.close()
CloseConnection(thread) == [thread EXCEPT !.conn = FALSE]

InFlight == {t \in Threads : threads[t].pc # "idle"}

\* room for the rows of the calls in flight and one more
ConcHasRoom ==
    Len(Rows(db, "weather_requests")) + Len(Rows(db, "currency_requests"))
        + Cardinality(InFlight) < MaxRecords

concRest == <<last, response>>

\* a handler thread calls save_weather_request or save_currency_request
ConcCall(t, table, row) ==
    /\ threads[t].pc = "idle"
    /\ ConcHasRoom
    /\ threads' = [threads EXCEPT ![t] =
                     [IdleThread EXCEPT !.pc = "validate", !.table = table,
                                        !.row = row]]
    /\ UNCHANGED <<db, reachable, lock, returned, concRest>>

\* if not city or temperature is None: return False
ConcValidate(t) ==
    /\ threads[t].pc = "validate"
    /\ threads' = [threads EXCEPT ![t] =
                     IF RowInvalid(threads[t].table, threads[t].row)
                     THEN IdleThread
                     ELSE [@ EXCEPT !.pc = "connect"]]
    /\ UNCHANGED <<db, reachable, lock, returned, concRest>>

\* conn = get_connection(); if conn is None: return False
ConcConnect(t) ==
    /\ threads[t].pc = "connect"
    /\ threads' = [threads EXCEPT ![t] =
                     IF get_connection = None
                     THEN IdleThread
                     ELSE [@ EXCEPT !.pc = "execute", !.conn = TRUE]]
    /\ UNCHANGED <<db, reachable, lock, returned, concRest>>

\* cursor.execute(INSERT ...): the connection takes the write lock and reads
\* the table it will extend
ConcExecute(t) ==
    /\ threads[t].pc = "execute"
    /\ WriteLockFree(lock)
    /\ lock' = t
    /\ threads' = [threads EXCEPT ![t] =
                     [@ EXCEPT !.pc = "commit",
                               !.snapshot = Rows(db, threads[t].table)]]
    /\ UNCHANGED <<db, reachable, returned, concRest>>

\* cursor.execute(INSERT ...) while another connection holds the write lock,
\* once the busy timeout is over: sqlite3.OperationalError, return False
ConcExecuteBusy(t) ==
    /\ threads[t].pc = "execute"
    /\ ~WriteLockFree(lock)
    /\ threads' = [threads EXCEPT ![t] =
                     [@ EXCEPT !.pc = "finally", !.ret = FALSE]]
    /\ UNCHANGED <<db, reachable, lock, returned, concRest>>

\* conn.commit(); return True
ConcCommit(t) ==
    /\ threads[t].pc = "commit"
    /\ db' = [db EXCEPT ![threads[t].table] =
                 Append(threads[t].snapshot, threads[t].row)]
    /\ lock' = IF lock = t THEN 0 ELSE lock
    /\ threads' = [threads EXCEPT ![t] =
                     [@ EXCEPT !.pc = "finally", !.ret = TRUE]]
    /\ UNCHANGED <<reachable, returned, concRest>>

\* finally: conn.close(); the call returns
ConcFinally(t) ==
    /\ threads[t].pc = "finally"
    /\ LET closed == CloseConnection(threads[t]) IN
       threads' = [threads EXCEPT ![t] =
                     [IdleThread EXCEPT !.conn = closed.conn]]
    /\ lock' = IF lock = t THEN 0 ELSE lock
    /\ returned' =
         IF threads[t].ret
         THEN [returned EXCEPT ![threads[t].table][threads[t].row.user_id] = @ + 1]
         ELSE returned
    /\ UNCHANGED <<db, reachable, concRest>>

ConcCallWeather ==
    \E t \in Threads, row \in WeatherRowsToSave :
        ConcCall(t, "weather_requests", row)
ConcCallCurrency ==
    \E t \in Threads, row \in CurrencyRowsToSave :
        ConcCall(t, "currency_requests", row)
ConcStep ==
    \E t \in Threads :
        \/ ConcValidate(t)
        \/ ConcConnect(t)
        \/ ConcExecute(t)
        \/ ConcExecuteBusy(t)
        \/ ConcCommit(t)
        \/ ConcFinally(t)

\* the bot polls only after init_db has returned True: both tables exist
ConcInit ==
    /\ db = CreateTablesIfNotExist(EmptyDict)
    /\ reachable = TRUE
    /\ last = NoCall
    /\ response = EmptyDict
    /\ threads = [t \in Threads |-> IdleThread]
    /\ lock = 0
    /\ returned = [table \in TableNames |-> [u \in Users |-> 0]]

ConcNext == ConcCallWeather \/ ConcCallCurrency \/ ConcStep \/ StoreFlips

SpecConc == ConcInit /\ [][ConcNext]_vars

----------------------------------------------------------------------------
(* bot.py: the handlers send_weather and handle_course_callback, one        *)
(* interaction at a time (interleaved store calls are SpecConc's subject).  *)
(* `threads` is the interaction of the one handler thread.  It records what *)
(* the handler did: the fetcher calls it made,                              *)
(* what the fetch returned, whether the reply was rendered, the append      *)
(* calls it made, and the database it found when it started.                *)

IdleInteraction ==
    [pc |-> "idle", kind |-> "", user_id |-> 0, arg |-> None,
     fetches |-> 0, fetched |-> None, rendered |-> FALSE, raised |-> FALSE,
     saves |-> 0, saved |-> FALSE, db0 |-> EmptyDict]

\* f"{weather['temp']:.1f}" and f"{weather['feels_like']:.1f}" raise
\* TypeError on None
RenderWeatherRaises(weather) ==
    weather.temp = None \/ weather.feels_like = None

\* f"{currency['value']:.2f}" and currency['value'] - currency['previous']
\* raise TypeError on None
RenderCurrencyRaises(currency) ==
    currency.value = None \/ currency.previous = None

botRest == <<last, response, lock, returned>>

\* a /weather message arrives; command_parts has the city or not.  Without
\* a city send_weather replies with the usage text and returns.
ReceiveWeather(user_id, city) ==
    /\ threads.pc = "idle"
    /\ HasRoom
    /\ threads' =
            [IdleInteraction EXCEPT
                        !.pc = IF city = None THEN "done" ELSE "fetch",
                        !.kind = "weather", !.user_id = user_id,
                        !.arg = city, !.db0 = db]
    /\ UNCHANGED <<db, reachable, botRest>>

\* a course_<code> callback arrives
ReceiveCourse(user_id, currency_code) ==
    /\ threads.pc = "idle"
    /\ HasRoom
    /\ threads' =
            [IdleInteraction EXCEPT
                        !.pc = "fetch", !.kind = "course",
                        !.user_id = user_id, !.arg = Some(currency_code),
                        !.db0 = db]
    /\ UNCHANGED <<db, reachable, botRest>>

\* weather = get_weather(city) / currency = get_currency_rate(currency_code);
\* "if not weather" / "if not currency": the failure reply, return
HandlerFetch(resp) ==
    LET ix == threads
        got == IF ix.kind = "weather"
               THEN get_weather(ValueOf(ix.arg), resp)
               ELSE get_currency_rate(ValueOf(ix.arg), resp)
    IN  /\ ix.pc = "fetch"
        /\ resp.provider = (IF ix.kind = "weather" THEN "openweathermap"
                            ELSE "cbr")
        /\ threads' =
            [threads EXCEPT !.fetches = @ + 1, !.fetched = got,
                                   !.pc = IF got = None THEN "done"
                                          ELSE "render"]
        /\ UNCHANGED <<db, reachable, botRest>>

\* text = f"""..."""; bot.reply_to / bot.edit_message_text.  A None in a
\* formatted number raises and ends the handler.
HandlerRender ==
    LET ix == threads
        raises == IF ix.kind = "weather"
                  THEN RenderWeatherRaises(ValueOf(ix.fetched))
                  ELSE RenderCurrencyRaises(ValueOf(ix.fetched))
    IN  /\ ix.pc = "render"
        /\ threads' =
            IF raises
                         THEN [threads EXCEPT !.raised = TRUE, !.pc = "done"]
                         ELSE [threads EXCEPT !.rendered = TRUE, !.pc = "save"]
        /\ UNCHANGED <<db, reachable, botRest>>

\* save_weather_request(user, username, weather['city'], weather['temp'],
\* weather['description']) / save_currency_request(user, username,
\* currency_code, currency['value'])
HandlerSave ==
    LET ix == threads
        got == ValueOf(ix.fetched)
        out == IF ix.kind = "weather"
               THEN SaveWeatherOutcome(ix.user_id, got.city, got.temp)
               ELSE SaveCurrencyOutcome(ix.user_id, ValueOf(ix.arg), got.value)
    IN  /\ ix.pc = "save"
        /\ db' = out.db
        /\ threads' =
            [threads EXCEPT !.saves = @ + 1, !.saved = out.ret,
                                   !.pc = "done"]
        /\ UNCHANGED <<reachable, botRest>>

\* the handler has returned; the thread takes the next update
HandlerReturns ==
    /\ threads.pc = "done"
    /\ threads' =  IdleInteraction
    /\ UNCHANGED <<db, reachable, botRest>>

WeatherCommand ==
    \E u \in Users, city \in {None, Some("Moscow")} : ReceiveWeather(u, city)
CourseCallback ==
    \E u \in Users, c \in {"USD", "EUR"} : ReceiveCourse(u, c)
Fetch == \E resp \in CbrResponses \cup OwmResponses : HandlerFetch(resp)

\* the bot polls only after init_db has returned True: both tables exist
BotInit ==
    /\ db = CreateTablesIfNotExist(EmptyDict)
    /\ reachable = TRUE
    /\ last = NoCall
    /\ response = EmptyDict
    /\ threads = IdleInteraction
    /\ lock = 0
    /\ returned = << >>

BotNext ==
    \/ WeatherCommand
    \/ CourseCallback
    \/ Fetch
    \/ HandlerRender
    \/ HandlerSave
    \/ HandlerReturns
    \/ StoreFlips

SpecBot == BotInit /\ [][BotNext]_vars

----------------------------------------------------------------------------
(* Properties of the record store, checked under SpecStore *)

ZeroedStats == [weather_requests |-> 0, avg_temperature |-> None,
                currency_requests |-> 0, currencies_used |-> << >>]

StoreFails == ~reachable \/ ~(TableNames \subseteq DOMAIN db)

\* C1: an append whose required field is invalid (weather: city empty or
\* temperature null; currency: code empty or rate null), or that cannot
\* reach the store, returns False and leaves the whole database as it was.
C1_RejectedAppendWritesNothing ==
    [][LET a == last'.args IN
       /\ (/\ last'.op = "save_weather_request"
           /\ save_weather_request(a[1], a[2], a[3])
           /\ (a[2] = "" \/ a[3] = None \/ ~reachable))
              => (last'.ret = FALSE /\ db' = db)
       /\ (/\ last'.op = "save_currency_request"
           /\ save_currency_request(a[1], a[2], a[3])
           /\ (a[2] = "" \/ a[3] = None \/ ~reachable))
              => (last'.ret = FALSE /\ db' = db)]_vars

\* C1 happens: a weather append with an empty city was refused while the
\* store was reachable and held weather rows.
C1_Witness ==
    /\ last.op = "save_weather_request"
    /\ last.args[2] = "" /\ last.args[3] # None
    /\ last.ret = FALSE
    /\ reachable
    /\ Len(Rows(db, "weather_requests")) > 0

\* C2: a weather append for user u that returns True raises u's
\* weather_requests count in get_user_stats by exactly 1 and leaves u's
\* currency_requests count and every other user's statistics unchanged.
C2_AppendThenStatsCountsOneMore ==
    [][\A u \in Users :
          (/\ last'.op = "save_weather_request"
           /\ last'.args[1] = u
           /\ save_weather_request(u, last'.args[2], last'.args[3])
           /\ last'.ret = TRUE) =>
              /\ get_user_stats(u)'.weather_requests
                     = get_user_stats(u).weather_requests + 1
              /\ get_user_stats(u)'.currency_requests
                     = get_user_stats(u).currency_requests
              /\ \A v \in Users \ {u} : get_user_stats(v)' = get_user_stats(v)]_vars

\* C2 happens: an append for a user returned True when that user already
\* had a weather row and the other users had rows of their own.
C2_Witness ==
    /\ last.op = "save_weather_request" /\ last.ret = TRUE
    /\ reachable
    /\ get_user_stats(last.args[1]).weather_requests >= 2
    /\ \E v \in Users \ {last.args[1]} :
           get_user_stats(v).weather_requests + get_user_stats(v).currency_requests > 0

\* C3: whenever get_user_stats answers, avg_temperature is None exactly when
\* the user has no weather row, and otherwise the tenth nearest to the
\* arithmetic mean of the user's temperatures, a mean of 0 included.
C3_AvgIsRoundedMean ==
    \A u \in Users :
        LET s == get_user_stats(u)
            mine == {i \in 1..Len(Rows(db, "weather_requests")) :
                        Rows(db, "weather_requests")[i].user_id = u}
            n == Cardinality(mine)
            total == SumTemperature(RowsOf(Rows(db, "weather_requests"), u))
        IN  s # EmptyDict =>
              /\ (n = 0 => s.avg_temperature = None)
              /\ (n > 0 =>
                    /\ s.avg_temperature # None
                    /\ LET d == 10 * total - ValueOf(s.avg_temperature) * n
                       IN  2 * d <= n /\ 2 * d >= -n)

\* C4 as claimed: with the store unreachable get_user_stats returns the
\* zeroed result it returns for a user with no rows.
C4_UnreachableGivesZeroed ==
    \A u \in Users : ~reachable => get_user_stats(u) = ZeroedStats

\* C4 as amended: get_user_stats always returns a dict; it is the empty dict
\* exactly when the store fails, and send_stats then answers "unavailable";
\* for a user with no rows in a working store it is the zeroed dict, a
\* different result, which send_stats renders.
C4_StoreErrorGivesEmptyDict ==
    \A u \in Users :
        LET s == get_user_stats(u) IN
        /\ DOMAIN s \in {{}, DOMAIN ZeroedStats}
        /\ (s = EmptyDict) <=> StoreFails
        /\ (send_stats_reply(s) = "unavailable") <=> StoreFails
        /\ (~StoreFails /\ RowsOf(Rows(db, "weather_requests"), u) = << >>
                        /\ RowsOf(Rows(db, "currency_requests"), u) = << >>)
               => (s = ZeroedStats /\ send_stats_reply(s) = "statistics")

\* C4 happens: get_user_stats was called for a user who has rows while the
\* store was unreachable, and returned the empty dict.
C4_Witness ==
    /\ last.op = "get_user_stats" /\ last.ret = EmptyDict
    /\ ~reachable
    /\ RowsOf(Rows(db, "weather_requests"), last.args[1]) # << >>

\* C5 as claimed: init_db leaves every table's rows as they were and
\* get_user_stats the same for every user.
C5_InitKeepsRowsAndStats ==
    [][init_db =>
          /\ \A t \in DOMAIN db : db'[t] = db[t]
          /\ \A u \in Users : get_user_stats(u)' = get_user_stats(u)]_vars

\* C5 as amended: init_db, called any number of times, leaves every existing
\* table's rows as they were and, when it returns True, exactly the two
\* tables existing; get_user_stats is the same for every user before and
\* after every call that found both tables existing.
C5_InitKeepsRows ==
    [][init_db =>
          /\ \A t \in DOMAIN db : t \in DOMAIN db' /\ db'[t] = db[t]
          /\ last'.ret = TRUE => DOMAIN db' = TableNames
          /\ TableNames \subseteq DOMAIN db =>
                 \A u \in Users : get_user_stats(u)' = get_user_stats(u)]_vars

\* C5 happens: init_db returned True on a database that holds rows in both
\* tables.
C5_Witness ==
    /\ last.op = "init_db" /\ last.ret = TRUE
    /\ Rows(db, "weather_requests") # << >>
    /\ Rows(db, "currency_requests") # << >>

----------------------------------------------------------------------------
(* Properties of the fetchers, checked under SpecFetch *)

\* C6: whenever get_currency_rate returns a quote, its value and previous
\* are not null; and when the document lacks the currency table or the
\* entry for the code, it returns a failure.
C6_QuoteValuesPresent ==
    last.op = "get_currency_rate" =>
        /\ last.ret # None =>
               /\ ValueOf(last.ret).value # None
               /\ ValueOf(last.ret).previous # None
        /\ (/\ response.net = "ok" /\ response.status_code = 200
            /\ response.body # NotJson
            /\ ("Valute" \notin DOMAIN response.body
                  \/ last.args[1] \notin DOMAIN response.body["Valute"]))
               => last.ret = None

\* C7 as claimed: the result get_weather returns for status 404 differs from
\* the one it returns for status 500.
C7_NotFoundToldApart ==
    (/\ last.op = "get_weather"
     /\ response.net = "ok" /\ response.status_code = 404)
        => last.ret # get_weather(last.args[1],
                                  [response EXCEPT !.status_code = 500])

\* C7 as amended: for status 404 and for every other status that is not 200
\* get_weather returns the same failure, None; only the level of the line
\* it logs tells them apart (a warning for 404, an error otherwise).
C7_NotFoundSameAsProviderError ==
    (/\ last.op = "get_weather"
     /\ response.net = "ok" /\ response.status_code # 200)
        => /\ last.ret = None
           /\ \A c \in StatusCodes \ {200} :
                  get_weather(last.args[1], [response EXCEPT !.status_code = c])
                      = last.ret
           /\ last.log = (IF response.status_code = 404 THEN "warning"
                          ELSE "error")

\* C7 happens: get_weather was called and the provider answered 404.
C7_Witness ==
    /\ last.op = "get_weather"
    /\ response.net = "ok" /\ response.status_code = 404
    /\ last.ret = None

\* C8: whenever get_weather returns a snapshot, the document held both the
\* temperature block and the conditions block, and the snapshot's temp and
\* feels_like are not null.
C8_SnapshotHasTemperatures ==
    (last.op = "get_weather" /\ last.ret # None) =>
        /\ {"main", "weather"} \subseteq DOMAIN response.body
        /\ ValueOf(last.ret).temp # None
        /\ ValueOf(last.ret).feels_like # None

----------------------------------------------------------------------------
(* Properties of concurrent appends, checked under SpecConc *)

\* the calls for a table and user that have committed and are about to
\* return True
Returning(table, u) ==
    {t \in Threads : /\ threads[t].pc = "finally" /\ threads[t].ret
                     /\ threads[t].table = table
                     /\ threads[t].row.user_id = u}

\* C9: under every interleaving of append calls, for every table and user
\* the rows persisted for the user are as many as the user's calls that have
\* returned True, counting a call between its commit and its return; every
\* persisted row has valid fields; and a call that has returned holds no
\* connection and no lock.
C9_NoWriteLostOrDuplicated ==
    /\ \A table \in TableNames, u \in Users :
           Len(SelectSeq(Rows(db, table), LAMBDA r : r.user_id = u))
               = returned[table][u] + Cardinality(Returning(table, u))
    /\ \A table \in TableNames :
           \A i \in 1..Len(Rows(db, table)) :
               ~RowInvalid(table, Rows(db, table)[i])
    /\ \A t \in Threads :
           threads[t].pc = "idle" => (~threads[t].conn /\ lock # t)

\* C9 happens: two calls were in flight at once, one holding the write lock
\* and the other refused by it, after calls of both users returned True.
C9_Witness ==
    /\ \E t1, t2 \in Threads :
           /\ threads[t1].pc = "commit"
           /\ threads[t2].pc = "finally" /\ ~threads[t2].ret /\ threads[t2].conn
           /\ threads[t1].row.user_id # threads[t2].row.user_id
    /\ \E table \in TableNames, u \in Users : returned[table][u] > 0

----------------------------------------------------------------------------
(* Properties of the handlers, checked under SpecBot *)

\* the rows the database has gained since the interaction started
Gained(table) ==
    Len(Rows(db, table)) - Len(Rows(threads.db0, table))

\* the rows that were there when the interaction started are still there,
\* unchanged and in place
KeepsOldRows ==
    \A table \in TableNames :
        /\ Gained(table) >= 0
        /\ SubSeq(Rows(db, table), 1, Len(Rows(threads.db0, table)))
               = Rows(threads.db0, table)

\* C10: an interaction that names its city or currency and has been handled
\* made exactly one fetcher call; if the fetch failed the store is as it
\* was; if the fetch succeeded exactly one append was attempted, after the
\* reply was rendered; and at most one row was added, none changed or
\* removed.
C10_OneFetchThenOneAppend ==
    LET ix == threads IN
    (ix.pc = "done" /\ ix.arg # None) =>
        /\ ix.fetches = 1
        /\ ix.fetched = None => (ix.saves = 0 /\ db = ix.db0)
        /\ ix.fetched # None => (ix.saves = 1 /\ ix.rendered)
        /\ KeepsOldRows
        /\ Gained("weather_requests") + Gained("currency_requests") <= 1

\* C10, the part the code keeps: every interaction makes at most one fetcher
\* call and at most one append call, an append only after a successful fetch
\* and a rendered reply; a failed fetch leaves the store as it was; at most
\* one row is added, for the requesting user, none changed or removed.
C10_AtMostOneFetchAndAppend ==
    LET ix == threads IN
    /\ ix.fetches <= 1 /\ ix.saves <= 1
    /\ ix.saves = 1 => (ix.fetches = 1 /\ ix.fetched # None /\ ix.rendered)
    /\ (ix.pc = "done" /\ ix.fetched = None) => db = ix.db0
    /\ ix.pc # "idle" =>
          /\ KeepsOldRows
          /\ Gained("weather_requests") + Gained("currency_requests")
                 = (IF ix.saved THEN 1 ELSE 0)
          /\ \A table \in TableNames :
                 Gained(table) = 1 =>
                     Rows(db, table)[Len(Rows(db, table))].user_id = ix.user_id

====
